---- MODULE Spec2Model ----
(***************************************************************************)
(* TaskEither (fp-ts): one invocation of a TaskEither built by one of the   *)
(* combinators bracket, tryCatch, chain, traverseSeqArray, traverseArray    *)
(* and ap, run on a single-threaded event loop.  A step is either the host  *)
(* settling a pending promise or one synchronous run of a continuation.     *)
(***************************************************************************)
EXTENDS Integers, Sequences, FiniteSets, TLC

VARIABLES
  prog,        \* the combinator whose TaskEither is invoked in this run
  pc,          \* position of the combinator's continuation
  task,        \* the promise of every underlying computation, by name or index
  calls,       \* per user function, the sequence of argument tuples it was called with
  result,      \* the promise returned by invoking the combinator's TaskEither
  arr,         \* traverse*: the input array
  onRejected,  \* tryCatch: the onRejected function
  i,           \* traverseSeqArrayWithIndex: loop index (0-based, as in the source)
  out,         \* traverseSeqArrayWithIndex: the local array `result`
  order,       \* history: the underlying promises in the order they settled
  law          \* algebraic laws: the inputs drawn and the two sides computed

vars == <<prog, pc, task, calls, result, arr, onRejected, i, out, order, law>>

-----------------------------------------------------------------------------
(* Bounds and value universes *)

MaxLen == 3                       \* longest input array of the traversals
MaxInvocations == 3               \* invocations of one TaskEither
MaxCallbacks == 2                 \* calls f makes of its callback
MaxFold == 3                      \* longest array handed to fold

Errs      == {"e1", "e2"}         \* failure values E
Vals      == {"b1", "b2"}         \* success values
Resources == {"r1", "r2"}         \* values acquired by bracket
Reasons   == {"x1", "x2"}         \* promise rejection reasons
Elems     == {"a1", "a2"}         \* array elements
Funs      == [Vals -> Vals]       \* functions produced by ap's first computation
Void      == "undefined"

-----------------------------------------------------------------------------
(* Either *)

E_left(e)   == [tag |-> "Left", val |-> e]
E_right(a)  == [tag |-> "Right", val |-> a]
E_isLeft(m) == m.tag = "Left"

Eithers(L, R) == {E_left(e) : e \in L} \cup {E_right(a) : a \in R}

(* the functions a => TaskEither<E, B>, each given by its outcomes *)
KFuns == [Vals -> Eithers(Errs, Vals)]

(* no law is being checked in the runs of a combinator *)
NoLaw == [kind |-> "none"]

(* Promises *)

NoValue      == [tag |-> "None", val |-> "none"]
Unstarted    == [state |-> "unstarted", value |-> NoValue]
Pending      == [state |-> "pending", value |-> NoValue]
Fulfilled(v) == [state |-> "fulfilled", value |-> v]
Rejected(r)  == [state |-> "rejected", value |-> r]
(* not a promise: the call raised x instead of returning one *)
Thrown(x)    == [state |-> "thrown", value |-> x]

Settled(p)   == p.state \in {"fulfilled", "rejected"}
Started(p)   == p.state # "unstarted"

-----------------------------------------------------------------------------
(* TaskEither constructors: an already resolved TaskEither is represented  *)
(* by the Either its promise is fulfilled with.                            *)

left(e)  == E_left(e)
right(a) == E_right(a)
of(a)    == right(a)

(* ET.chain_(M): the continuation of ma's promise.  On a Left it answers   *)
(* M.of(e) without calling f; on a Right it calls f with the value.        *)
ET_chain_(e) ==
  IF E_isLeft(e) THEN [next |-> "of", val |-> e]
                 ELSE [next |-> "f", val |-> e.val]

(* Variant: T.chain in place of ET.chain_, f is called whatever the tag.    *)
ET_chain_always(e) == [next |-> "f", val |-> e.val]

(* chain = ET.chain_(T.Monad) *)
chain(e) == ET_chain_(e)

-----------------------------------------------------------------------------
(* The host: a pending promise of a TaskEither settles, fulfilled with an  *)
(* Either (a Task never rejects).                                          *)

OutcomesOf(t) ==
  CASE prog = "bracket" /\ t = "acquire" -> Eithers(Errs, Resources)
    [] prog = "bracket" /\ t = "release" -> Eithers(Errs, {Void})
    [] prog \in {"ap", "apSeq", "apValidation"} /\ t = "fab" -> Eithers(Errs, Funs)
    [] OTHER -> Eithers(Errs, Vals)

TaskSettles ==
  /\ prog \notin {"tryCatch", "repeat"}
  /\ \E t \in DOMAIN task :
       /\ task[t].state = "pending"
       /\ \E o \in OutcomesOf(t) :
            /\ task' = [task EXCEPT ![t] = Fulfilled(o)]
            /\ order' = Append(order, t)
  /\ UNCHANGED <<prog, pc, calls, result, arr, onRejected, i, out, law>>

-----------------------------------------------------------------------------
(* bracket(acquire, use, release) *)

(* Variant: TaskEither's map in place of T.map, a Left of use stays a Left. *)
bracket_useOutcome_map(e) == IF E_isLeft(e) THEN e ELSE E_right(e)

(* pipe(use(a), T.map(E.right)): the outcome of use, Left or Right, is     *)
(* itself the Right the next chain continues with.                         *)
bracket_useOutcome(e) == E_right(e)

(* Variant: release's Left is dropped.                                     *)
bracket_final_ignoreRelease(rel, e) == IF E_isLeft(e) THEN left(e.val) ELSE of(e.val)

(* pipe(release(a, e), chain(() => E.isLeft(e) ? left(e.left) :            *)
(* of(e.right))): release's Left, or else use's outcome again.             *)

bracket_final(rel, e) ==
  LET c == chain(rel)
  IN  IF c.next = "of" THEN c.val
      ELSE IF E_isLeft(e) THEN left(e.val) ELSE of(e.val)

bracket_invoke ==
  /\ prog = "bracket" /\ pc = "init"
  /\ task' = [task EXCEPT !["acquire"] = Pending]
  /\ result' = Pending
  /\ pc' = "acquire"
  /\ UNCHANGED <<prog, calls, arr, onRejected, i, out, order, law>>

bracket_acquired ==
  /\ prog = "bracket" /\ pc = "acquire"
  /\ task["acquire"].state = "fulfilled"
  /\ LET c == chain(task["acquire"].value)
     IN  IF c.next = "of"
         THEN /\ result' = Fulfilled(c.val)
              /\ pc' = "done"
              /\ UNCHANGED <<task, calls>>
         ELSE /\ calls' = [calls EXCEPT !["use"] = Append(@, <<c.val>>)]
              /\ task' = [task EXCEPT !["use"] = Pending]
              /\ pc' = "use"
              /\ UNCHANGED result
  /\ UNCHANGED <<prog, arr, onRejected, i, out, order, law>>

bracket_used ==
  /\ prog = "bracket" /\ pc = "use"
  /\ task["use"].state = "fulfilled"
  /\ LET a == task["acquire"].value.val
         c == chain(bracket_useOutcome(task["use"].value))
     IN  IF c.next = "of"
         THEN /\ result' = Fulfilled(c.val)
              /\ pc' = "done"
              /\ UNCHANGED <<task, calls>>
         ELSE /\ calls' = [calls EXCEPT !["release"] = Append(@, <<a, c.val>>)]
              /\ task' = [task EXCEPT !["release"] = Pending]
              /\ pc' = "release"
              /\ UNCHANGED result
  /\ UNCHANGED <<prog, arr, onRejected, i, out, order, law>>

bracket_released ==
  /\ prog = "bracket" /\ pc = "release"
  /\ task["release"].state = "fulfilled"
  \* e, captured by the closure, is the second argument release was called with
  /\ result' = Fulfilled(bracket_final(task["release"].value, calls["release"][1][2]))
  /\ pc' = "done"
  /\ UNCHANGED <<prog, task, calls, arr, onRejected, i, out, order, law>>

-----------------------------------------------------------------------------
(* tryCatch(f, onRejected) = () => f().then(E.right, reason =>             *)
(*                                             E.left(onRejected(reason))) *)

(* Variant: .then(E.right) alone, a rejection passes through.              *)
tryCatch_thenNoHandler(p, onRej) ==
  IF p.state = "fulfilled" THEN Fulfilled(E_right(p.value))
                           ELSE Rejected(p.value)

(* Promise.prototype.then(onFulfilled, onRejected) with handlers that do   *)
(* not throw: the derived promise is fulfilled with the handler's answer.  *)

tryCatch_then(p, onRej) ==
  IF p.state = "fulfilled" THEN Fulfilled(E_right(p.value))
                           ELSE Fulfilled(E_left(onRej[p.value]))

(* Variant: the body wrapped in try / catch, as an async function does.    *)
tryCatch_throwsCaught(x, onRej) == Fulfilled(E_left(onRej[x]))

(* f() raises x before .then is reached: the arrow function has no try, x  *)
(* leaves it and no promise is returned.                                   *)
tryCatch_throws(x, onRej) == Thrown(x)

(* The handlers of .then that the settled promise p runs: the second one   *)
(* calls onRejected with the reason.                                       *)
tryCatch_handlerCalls(p) ==
  IF p.state = "rejected" THEN << <<p.value>> >> ELSE <<>>

(* f either returns a promise or raises an exception *)
tryCatch_invoke ==
  /\ prog = "tryCatch" /\ pc = "init"
  /\ calls' = [calls EXCEPT !["f"] = Append(@, <<>>)]
  /\ \/ /\ task' = [task EXCEPT !["f"] = Pending]
        /\ result' = Pending
        /\ pc' = "then"
     \/ \E x \in Reasons :
          /\ task' = [task EXCEPT !["f"] = Thrown(x)]
          /\ result' = tryCatch_throws(x, onRejected)
          /\ pc' = "thrown"
  /\ UNCHANGED <<prog, arr, onRejected, i, out, order, law>>

(* The host: the promise returned by f() resolves with a value or rejects. *)
PromiseSettles ==
  /\ prog \in {"tryCatch", "repeat"}
  /\ \E t \in DOMAIN task :
       /\ task[t].state = "pending"
       /\ \/ \E v \in Vals : task' = [task EXCEPT ![t] = Fulfilled(v)]
          \/ \E r \in Reasons : task' = [task EXCEPT ![t] = Rejected(r)]
       /\ order' = Append(order, t)
  /\ UNCHANGED <<prog, pc, calls, result, arr, onRejected, i, out, law>>

tryCatch_settled ==
  /\ prog = "tryCatch" /\ pc = "then"
  /\ Settled(task["f"])
  /\ result' = tryCatch_then(task["f"], onRejected)
  /\ calls' = [calls EXCEPT !["onRejected"] = @ \o tryCatch_handlerCalls(task["f"])]
  /\ pc' = "done"
  /\ UNCHANGED <<prog, task, arr, onRejected, i, out, order, law>>

(* The same TaskEither te = tryCatch(f, onRejected) invoked again and      *)
(* again: task[k] is the promise f returned to invocation k, out[k] the    *)
(* promise te() returned to it, i the number of invocations so far.        *)

(* Variant: the promise of the first run is kept and handed out again.     *)
tryCatch_memoized(k) == 1

(* () => f().then(...): invocation k chains on what its own call of f      *)
(* returns, the k-th call.                                                 *)
tryCatch_fresh(k) == k

repeat_invoke ==
  /\ prog = "repeat" /\ i < MaxInvocations
  /\ i' = i + 1
  /\ IF tryCatch_fresh(i + 1) > Len(task)
     THEN /\ calls' = [calls EXCEPT !["f"] = Append(@, <<>>)]
          /\ \/ /\ task' = Append(task, Pending)
                /\ out' = Append(out, Pending)
             \/ \E x \in Reasons :
                  /\ task' = Append(task, Thrown(x))
                  /\ out' = Append(out, tryCatch_throws(x, onRejected))
     ELSE /\ out' = Append(out, Pending)
          /\ UNCHANGED <<task, calls>>
  /\ UNCHANGED <<prog, pc, result, arr, onRejected, order, law>>

repeat_settled ==
  /\ prog = "repeat"
  /\ \E k \in 1..Len(out) :
       LET p == task[tryCatch_fresh(k)]
       IN  /\ out[k].state = "pending"
           /\ Settled(p)
           /\ out' = [out EXCEPT ![k] = tryCatch_then(p, onRejected)]
           /\ calls' = [calls EXCEPT !["onRejected"] = @ \o tryCatch_handlerCalls(p)]
  /\ UNCHANGED <<prog, pc, task, result, arr, onRejected, i, order, law>>

-----------------------------------------------------------------------------
(* chain(f)(ma) *)

chain_invoke ==
  /\ prog = "chain" /\ pc = "init"
  /\ task' = [task EXCEPT !["ma"] = Pending]
  /\ result' = Pending
  /\ pc' = "ma"
  /\ UNCHANGED <<prog, calls, arr, onRejected, i, out, order, law>>

chain_continue ==
  /\ prog = "chain" /\ pc = "ma"
  /\ task["ma"].state = "fulfilled"
  /\ LET c == chain(task["ma"].value)
     IN  IF c.next = "of"
         THEN /\ result' = Fulfilled(c.val)
              /\ pc' = "done"
              /\ UNCHANGED <<task, calls>>
         ELSE /\ calls' = [calls EXCEPT !["f"] = Append(@, <<c.val>>)]
              /\ task' = [task EXCEPT !["fb"] = Pending]
              /\ pc' = "fb"
              /\ UNCHANGED result
  /\ UNCHANGED <<prog, arr, onRejected, i, out, order, law>>

chain_finish ==
  /\ prog = "chain" /\ pc = "fb"
  /\ task["fb"].state = "fulfilled"
  /\ result' = Fulfilled(task["fb"].value)
  /\ pc' = "done"
  /\ UNCHANGED <<prog, task, calls, arr, onRejected, i, out, order, law>>

-----------------------------------------------------------------------------
(* traverseSeqArrayWithIndex(f)(arr), as traverseSeqArray calls it: f is   *)
(* applied to the element only.  The async function runs synchronously up  *)
(* to its first await, and from one await to the next.                     *)

(* The head of the for loop with index k and local array res: either the   *)
(* call f(k, arr[k])() and the await, or the return after the loop.        *)
traverseSeq_loop(k, res) ==
  /\ i' = k
  /\ out' = res
  /\ IF k < Len(arr)
     THEN /\ calls' = [calls EXCEPT !["f"] = Append(@, <<arr[k + 1]>>)]
          /\ task' = [task EXCEPT ![k + 1] = Pending]
          /\ pc' = "await"
          /\ result' = Pending
     ELSE /\ result' = Fulfilled(E_right(res))
          /\ pc' = "done"
          /\ UNCHANGED <<task, calls>>

(* Variant: the early return is missing.                                   *)
traverseSeq_noBail(e) == FALSE

(* if (E.isLeft(e)) { return e }                                           *)
traverseSeq_bail(e) == E_isLeft(e)

traverseSeqArray_invoke ==
  /\ prog = "traverseSeqArray" /\ pc = "init"
  /\ traverseSeq_loop(0, <<>>)
  /\ UNCHANGED <<prog, arr, onRejected, order, law>>

traverseSeqArray_resume ==
  /\ prog = "traverseSeqArray" /\ pc = "await"
  /\ task[i + 1].state = "fulfilled"
  /\ LET e == task[i + 1].value
     IN  IF traverseSeq_bail(e)
         THEN /\ result' = Fulfilled(e)
              /\ pc' = "done"
              /\ UNCHANGED <<task, calls, i, out>>
         ELSE traverseSeq_loop(i + 1, Append(out, e.val))
  /\ UNCHANGED <<prog, arr, onRejected, order, law>>

-----------------------------------------------------------------------------
(* traverseArrayWithIndex(f)(arr) =                                        *)
(*   pipe(arr, T.traverseArrayWithIndex(f), T.map(E.sequenceArray))        *)

(* E.sequenceArray: scans the results in index order and answers the first *)
(* Left it meets, otherwise the Right of all the values, in order.         *)
RECURSIVE E_sequenceArrayFrom(_, _, _)
E_sequenceArrayFrom(es, k, res) ==
  IF k > Len(es) THEN E_right(res)
  ELSE IF E_isLeft(es[k]) THEN es[k]
  ELSE E_sequenceArrayFrom(es, k + 1, Append(res, es[k].val))

E_sequenceArray(es) == E_sequenceArrayFrom(es, 1, <<>>)

(* T.traverseArrayWithIndex(f)(arr)(): the indices whose computation       *)
(* f(i, arr[i])() is started when the traversal is invoked: all of them.   *)
T_traverseArrayWithIndex(n) == 1..n

(* Variant: the first Left in the order the promises settled, not by index. *)
E_firstSettledLeft(es) ==
  LET lefts == {k \in 1..Len(order) : E_isLeft(es[order[k]])}
  IN  IF lefts = {} THEN E_sequenceArray(es)
      ELSE es[order[CHOOSE k \in lefts : \A j \in lefts : k <= j]]

(* T.map(E.sequenceArray) *)
traverseArray_collect(es) == E_sequenceArray(es)

(* Variant: T.traverseSeqArrayWithIndex, only the first computation is     *)
(* started at invocation.                                                  *)
T_traverseSeqArrayWithIndex(n) == 1..n \cap {1}

(* T.traverseArrayWithIndex(f) *)
traverseArray_starts(n) == T_traverseArrayWithIndex(n)

traverseArray_invoke ==
  /\ prog = "traverseArray" /\ pc = "init"
  /\ LET started == traverseArray_starts(Len(arr))
     IN  /\ calls' = [calls EXCEPT !["f"] =
                        [k \in 1..Cardinality(started) |-> <<arr[k]>>]]
         /\ task' = [k \in DOMAIN task |->
                        IF k \in started THEN Pending ELSE task[k]]
  /\ result' = Pending
  /\ pc' = "all"
  /\ UNCHANGED <<prog, arr, onRejected, i, out, order, law>>

traverseArray_settled ==
  /\ prog = "traverseArray" /\ pc = "all"
  /\ \A k \in DOMAIN task : task[k].state = "fulfilled"
  /\ result' = Fulfilled(traverseArray_collect([k \in 1..Len(arr) |-> task[k].value]))
  /\ pc' = "done"
  /\ UNCHANGED <<prog, task, calls, arr, onRejected, i, out, order, law>>

-----------------------------------------------------------------------------
(* ap(fa)(fab) = ET.ap_(T.ApplyPar)(fa)(fab)                               *)

(* E.ap: the Left of the function side first, then the Left of the value   *)
(* side, otherwise the function applied to the value.                      *)
E_ap(fab, fa) ==
  IF E_isLeft(fab) THEN fab
  ELSE IF E_isLeft(fa) THEN fa
  ELSE E_right(fab.val[fa.val])

(* Variant: of two Lefts, the one that settled first in time.              *)
E_apFirstSettled(fab, fa) ==
  IF E_isLeft(fab) /\ E_isLeft(fa)
  THEN (IF order[1] = "fab" THEN fab ELSE fa)
  ELSE E_ap(fab, fa)

(* T.ApplyPar: the computations started when the application is invoked    *)
T_ApplyPar == {"fab", "fa"}

(* Variant: T.ApplySeq, only the function side is started at invocation.   *)
T_ApplySeq == {"fab"}

(* ET.ap_: the two settled Eithers are combined by E.ap *)
ap_result(fab, fa) == E_ap(fab, fa)

(* ET.ap_(T.ApplyPar) *)
ap_starts == T_ApplyPar

ap_invoke ==
  /\ prog = "ap" /\ pc = "init"
  /\ task' = [t \in DOMAIN task |-> IF t \in ap_starts THEN Pending ELSE task[t]]
  /\ result' = Pending
  /\ pc' = "both"
  /\ UNCHANGED <<prog, calls, arr, onRejected, i, out, order, law>>

ap_settled ==
  /\ prog = "ap" /\ pc = "both"
  /\ task["fab"].state = "fulfilled" /\ task["fa"].state = "fulfilled"
  /\ result' = Fulfilled(ap_result(task["fab"].value, task["fa"].value))
  /\ pc' = "done"
  /\ UNCHANGED <<prog, task, calls, arr, onRejected, i, out, order, law>>

-----------------------------------------------------------------------------
(* _apSeq(fab, fa) = pipe(fab, chain((f) => pipe(fa, map(f))))             *)

(* ET.map_(F): E.map(f) on the settled Either, a Left is left as it is     *)
ET_map_(f, e) == IF E_isLeft(e) THEN e ELSE E_right(f[e.val])

(* map = ET.map_(T.Functor) *)
map(f, e) == ET_map_(f, e)

(* Variant: _apPar in place of _apSeq, both sides are started at invocation. *)
apSeq_startsBoth == {"fab", "fa"}

(* pipe(fab, chain(...)): the computations started at invocation *)
apSeq_starts == {"fab"}

apSeq_invoke ==
  /\ prog = "apSeq" /\ pc = "init"
  /\ task' = [t \in DOMAIN task |-> IF t \in apSeq_starts THEN Pending ELSE task[t]]
  /\ result' = Pending
  /\ pc' = "fab"
  /\ UNCHANGED <<prog, calls, arr, onRejected, i, out, order, law>>

apSeq_continue ==
  /\ prog = "apSeq" /\ pc = "fab"
  /\ task["fab"].state = "fulfilled"
  /\ LET c == chain(task["fab"].value)
     IN  IF c.next = "of"
         THEN /\ result' = Fulfilled(c.val)
              /\ pc' = "done"
              /\ UNCHANGED task
         ELSE /\ task' = [task EXCEPT !["fa"] = Pending]
              /\ pc' = "fa"
              /\ UNCHANGED result
  /\ UNCHANGED <<prog, calls, arr, onRejected, i, out, order, law>>

apSeq_finish ==
  /\ prog = "apSeq" /\ pc = "fa"
  /\ task["fa"].state = "fulfilled"
  /\ result' = Fulfilled(map(task["fab"].value.val, task["fa"].value))
  /\ pc' = "done"
  /\ UNCHANGED <<prog, task, calls, arr, onRejected, i, out, order, law>>

-----------------------------------------------------------------------------
(* Monad laws of chain and of.  A function a => TaskEither is given by the *)
(* Either its TaskEither settles with, for each argument.                  *)

(* Variant: the continuation is dropped, the run settles as ma does.       *)
chain_run_never(f, e) == e

(* The Either a run of chain(f)(ma) settles with when ma settles with e:   *)
(* chain_continue followed by chain_finish.                                *)
chain_run(f, e) ==
  LET c == ET_chain_(e)
  IN  IF c.next = "of" THEN c.val ELSE f[c.val]

(* chain(f)(right(a)) against f(a) *)
chain_leftIdentity ==
  /\ prog = "monad" /\ pc = "init"
  /\ law' = [law EXCEPT !.kind = "leftIdentity",
                        !.lhs = chain_run(law.f, right(law.a)),
                        !.rhs = law.f[law.a]]
  /\ pc' = "done"
  /\ UNCHANGED <<prog, task, calls, result, arr, onRejected, i, out, order>>

(* chain(right)(m) against m *)
chain_rightIdentity ==
  /\ prog = "monad" /\ pc = "init"
  /\ law' = [law EXCEPT !.kind = "rightIdentity",
                        !.lhs = chain_run([x \in Vals |-> right(x)], law.m),
                        !.rhs = law.m]
  /\ pc' = "done"
  /\ UNCHANGED <<prog, task, calls, result, arr, onRejected, i, out, order>>

(* chain(g)(chain(f)(m)) against chain(x => chain(g)(f(x)))(m) *)
chain_associativity ==
  /\ prog = "monad" /\ pc = "init"
  /\ law' = [law EXCEPT !.kind = "associativity",
                        !.lhs = chain_run(law.g, chain_run(law.f, law.m)),
                        !.rhs = chain_run([x \in Vals |-> chain_run(law.g, law.f[x])],
                                          law.m)]
  /\ pc' = "done"
  /\ UNCHANGED <<prog, task, calls, result, arr, onRejected, i, out, order>>

-----------------------------------------------------------------------------
(* map(g)(ma), mapLeft(f)(ma), bimap(f, g)(ma): f is the function on the   *)
(* failure, g the function on the success.                                 *)

(* ET.map_, ET.mapLeft_, ET.bimap_: the function the continuation of ma    *)
(* applies to the value of the settled Either.                             *)
ET_map_applies(e)     == IF E_isLeft(e) THEN "none" ELSE "g"
ET_mapLeft_applies(e) == IF E_isLeft(e) THEN "f" ELSE "none"
ET_bimap_applies(e)   == IF E_isLeft(e) THEN "f" ELSE "g"

(* the Either with the function applied under its tag *)
E_applied(who, fns, e) ==
  IF who = "none" THEN e ELSE [tag |-> e.tag, val |-> fns[who][e.val]]

(* Variant: map and mapLeft are wired to each other's combinator.          *)
bifunctor_applies_swapped(op, e) ==
  CASE op = "map"     -> ET_mapLeft_applies(e)
    [] op = "mapLeft" -> ET_map_applies(e)
    [] op = "bimap"   -> ET_bimap_applies(e)

(* map = ET.map_(T.Functor), bimap = ET.bimap_(T.Functor),                 *)
(* mapLeft = ET.mapLeft_(T.Functor)                                        *)
bifunctor_applies(op, e) ==
  CASE op = "map"     -> ET_map_applies(e)
    [] op = "mapLeft" -> ET_mapLeft_applies(e)
    [] op = "bimap"   -> ET_bimap_applies(e)

bifunctor_invoke ==
  /\ prog \in {"map", "mapLeft", "bimap"} /\ pc = "init"
  /\ task' = [task EXCEPT !["ma"] = Pending]
  /\ result' = Pending
  /\ pc' = "ma"
  /\ UNCHANGED <<prog, calls, arr, onRejected, i, out, order, law>>

bifunctor_settled ==
  /\ prog \in {"map", "mapLeft", "bimap"} /\ pc = "ma"
  /\ task["ma"].state = "fulfilled"
  /\ LET e   == task["ma"].value
         who == bifunctor_applies(prog, e)
     IN  /\ calls' = IF who = "none" THEN calls
                     ELSE [calls EXCEPT ![who] = Append(@, <<e.val>>)]
         /\ result' = Fulfilled(E_applied(who, law, e))
  /\ pc' = "done"
  /\ UNCHANGED <<prog, task, arr, onRejected, i, out, order, law>>

(* Functor laws of map *)

(* map(identity)(m) against m *)
map_identity ==
  /\ prog = "functor" /\ pc = "init"
  /\ law' = [law EXCEPT !.kind = "identity",
                        !.lhs = map([x \in Vals |-> x], law.m),
                        !.rhs = law.m]
  /\ pc' = "done"
  /\ UNCHANGED <<prog, task, calls, result, arr, onRejected, i, out, order>>

(* map(f . g)(m) against map(f)(map(g)(m)) *)
map_composition ==
  /\ prog = "functor" /\ pc = "init"
  /\ law' = [law EXCEPT !.kind = "composition",
                        !.lhs = map([x \in Vals |-> law.f[law.g[x]]], law.m),
                        !.rhs = map(law.f, map(law.g, law.m))]
  /\ pc' = "done"
  /\ UNCHANGED <<prog, task, calls, result, arr, onRejected, i, out, order>>

-----------------------------------------------------------------------------
(* getApplicativeTaskValidation(A, S).ap(fab, fa), with                    *)
(* ap = ap_(A, E.getApplicativeValidation(S))                              *)

(* the Semigroup S of the failures: semigroupString, x + y *)
S_concat(x, y) == x \o y

(* E.getApplicativeValidation(S).ap: two Lefts are combined with S.concat, *)
(* function side first.                                                    *)
E_getApplicativeValidation_ap(fab, fa) ==
  IF E_isLeft(fab)
  THEN (IF E_isLeft(fa) THEN E_left(S_concat(fab.val, fa.val)) ELSE fab)
  ELSE IF E_isLeft(fa) THEN fa
  ELSE E_right(fab.val[fa.val])

(* the Apply instance A of Task: the computations it starts at invocation, *)
(* T.ApplyPar both, T.ApplySeq the function side alone                     *)
T_Apply_starts(A) == IF A = "ApplyPar" THEN T_ApplyPar ELSE {"fab"}

(* Variant: composed with Either's own Apply, as the plain ap is.          *)
apValidation_plain(fab, fa) == E_ap(fab, fa)

(* ap_(A, E.getApplicativeValidation(S)) *)
apValidation_result(fab, fa) == E_getApplicativeValidation_ap(fab, fa)

apValidation_invoke ==
  /\ prog = "apValidation" /\ pc = "init"
  /\ task' = [t \in DOMAIN task |->
                IF t \in T_Apply_starts(law.A) THEN Pending ELSE task[t]]
  /\ result' = Pending
  /\ pc' = "both"
  /\ UNCHANGED <<prog, calls, arr, onRejected, i, out, order, law>>

(* T.ApplySeq: the value side is run once the function side has settled,   *)
(* whatever its Either.                                                    *)
apValidation_second ==
  /\ prog = "apValidation" /\ pc = "both"
  /\ task["fab"].state = "fulfilled" /\ task["fa"].state = "unstarted"
  /\ task' = [task EXCEPT !["fa"] = Pending]
  /\ UNCHANGED <<prog, pc, calls, result, arr, onRejected, i, out, order, law>>

apValidation_settled ==
  /\ prog = "apValidation" /\ pc = "both"
  /\ task["fab"].state = "fulfilled" /\ task["fa"].state = "fulfilled"
  /\ result' = Fulfilled(apValidation_result(task["fab"].value, task["fa"].value))
  /\ pc' = "done"
  /\ UNCHANGED <<prog, task, calls, arr, onRejected, i, out, order, law>>

-----------------------------------------------------------------------------
(* orElse(onLeft)(ma) and alt(that)(fa): the first computation is "ma",    *)
(* the replacement returned by onLeft(e) or that() is "mb".                *)

(* ET.orElse_(M): after ma, a Right is returned through M.of, a Left is    *)
(* handed to onLeft.                                                       *)
ET_orElse_(e) ==
  IF E_isLeft(e) THEN [next |-> "onLeft", val |-> e.val]
                 ELSE [next |-> "of", val |-> e]

(* ET.alt_(M): after fa, a Right is returned through M.of, on a Left the   *)
(* supplier that is called, without arguments.                             *)
ET_alt_(e) ==
  IF E_isLeft(e) THEN [next |-> "that"] ELSE [next |-> "of", val |-> e]

(* Variant: the first outcome is returned whatever its tag.                *)
ET_orElse_never(e) == [next |-> "of", val |-> e]

(* orElse = ET.orElse_(T.Monad) *)
orElse(e) == ET_orElse_(e)

(* alt = ET.alt_(T.Monad) *)
alt(e) == ET_alt_(e)

orElse_invoke ==
  /\ prog = "orElse" /\ pc = "init"
  /\ task' = [task EXCEPT !["ma"] = Pending]
  /\ result' = Pending
  /\ pc' = "ma"
  /\ UNCHANGED <<prog, calls, arr, onRejected, i, out, order, law>>

orElse_continue ==
  /\ prog = "orElse" /\ pc = "ma"
  /\ task["ma"].state = "fulfilled"
  /\ LET c == orElse(task["ma"].value)
     IN  IF c.next = "of"
         THEN /\ result' = Fulfilled(c.val)
              /\ pc' = "done"
              /\ UNCHANGED <<task, calls>>
         ELSE /\ calls' = [calls EXCEPT !["onLeft"] = Append(@, <<c.val>>)]
              /\ task' = [task EXCEPT !["mb"] = Pending]
              /\ pc' = "mb"
              /\ UNCHANGED result
  /\ UNCHANGED <<prog, arr, onRejected, i, out, order, law>>

orElse_finish ==
  /\ prog = "orElse" /\ pc = "mb"
  /\ task["mb"].state = "fulfilled"
  /\ result' = Fulfilled(task["mb"].value)
  /\ pc' = "done"
  /\ UNCHANGED <<prog, task, calls, arr, onRejected, i, out, order, law>>

alt_invoke ==
  /\ prog = "alt" /\ pc = "init"
  /\ task' = [task EXCEPT !["ma"] = Pending]
  /\ result' = Pending
  /\ pc' = "ma"
  /\ UNCHANGED <<prog, calls, arr, onRejected, i, out, order, law>>

alt_continue ==
  /\ prog = "alt" /\ pc = "ma"
  /\ task["ma"].state = "fulfilled"
  /\ LET c == alt(task["ma"].value)
     IN  IF c.next = "of"
         THEN /\ result' = Fulfilled(c.val)
              /\ pc' = "done"
              /\ UNCHANGED <<task, calls>>
         ELSE /\ calls' = [calls EXCEPT !["that"] = Append(@, <<>>)]
              /\ task' = [task EXCEPT !["mb"] = Pending]
              /\ pc' = "mb"
              /\ UNCHANGED result
  /\ UNCHANGED <<prog, arr, onRejected, i, out, order, law>>

alt_finish ==
  /\ prog = "alt" /\ pc = "mb"
  /\ task["mb"].state = "fulfilled"
  /\ result' = Fulfilled(task["mb"].value)
  /\ pc' = "done"
  /\ UNCHANGED <<prog, task, calls, arr, onRejected, i, out, order, law>>

-----------------------------------------------------------------------------
(* getAltTaskValidation(S).alt(fa, that), with                             *)
(* alt = ET.altValidation_(T.Monad, S): "ma" is fa, "mb" is that().        *)

(* ET.altValidation_(M, S), the second half: the Either e2 of that() after *)
(* fa failed with e1; two failures are joined by S.concat, first one first *)
ET_altValidation_(e1, e2) ==
  IF E_isLeft(e2) THEN E_left(S_concat(e1, e2.val)) ELSE e2

(* Variant: the plain alt, the Either of that() as it is.                  *)
altValidation_plain(e1, e2) == e2

(* const alt = ET.altValidation_(T.Monad, S) *)
altValidation_result(e1, e2) == ET_altValidation_(e1, e2)

altValidation_invoke ==
  /\ prog = "altValidation" /\ pc = "init"
  /\ task' = [task EXCEPT !["ma"] = Pending]
  /\ result' = Pending
  /\ pc' = "ma"
  /\ UNCHANGED <<prog, calls, arr, onRejected, i, out, order, law>>

(* a Right of fa is returned as it is, on a Left that() is called and run  *)
altValidation_continue ==
  /\ prog = "altValidation" /\ pc = "ma"
  /\ task["ma"].state = "fulfilled"
  /\ IF E_isLeft(task["ma"].value)
     THEN /\ calls' = [calls EXCEPT !["that"] = Append(@, <<>>)]
          /\ task' = [task EXCEPT !["mb"] = Pending]
          /\ pc' = "mb"
          /\ UNCHANGED result
     ELSE /\ result' = Fulfilled(task["ma"].value)
          /\ pc' = "done"
          /\ UNCHANGED <<task, calls>>
  /\ UNCHANGED <<prog, arr, onRejected, i, out, order, law>>

altValidation_finish ==
  /\ prog = "altValidation" /\ pc = "mb"
  /\ task["mb"].state = "fulfilled"
  /\ result' = Fulfilled(altValidation_result(task["ma"].value.val,
                                              task["mb"].value))
  /\ pc' = "done"
  /\ UNCHANGED <<prog, task, calls, arr, onRejected, i, out, order, law>>

-----------------------------------------------------------------------------
(* taskify(f)(...args)(): arr holds args, result is the promise built by   *)
(* new Promise, calls["cbResolver"] the calls f has made of its callback.  *)

(* JavaScript values a callback may get as its error argument, each named  *)
(* by its literal; "e1" stands for an error object.                        *)
JsErrors   == {"null", "undefined", "0", "''", "e1"}
JsFalsy    == {"null", "undefined", "0", "''"}
JsResults  == {"b1", "undefined"}

(* e != null, the loose comparison: false for null and for undefined only  *)
JS_looseNotNull(e) == e \notin {"null", "undefined"}

(* Variant: the test written as a truthiness test, e ? ... : ...           *)
taskify_cbTruthy(e, r) ==
  IF e \notin JsFalsy THEN E_left(e) ELSE E_right(r)

(* cbResolver = (e, r) => (e != null ? resolve(E.left(e))                  *)
(*                                   : resolve(E.right(r)))                *)
(* the value handed to resolve                                             *)
taskify_cbResolver(e, r) ==
  IF JS_looseNotNull(e) THEN E_left(e) ELSE E_right(r)

(* resolve(v) of new Promise: settles a pending promise, and does nothing  *)
(* to a settled one                                                        *)
Promise_resolve(p, v) == IF p.state = "pending" THEN Fulfilled(v) ELSE p

(* the executor runs inside the invocation: f.apply(null,                  *)
(* args.concat(cbResolver))                                                *)
taskify_invoke ==
  /\ prog = "taskify" /\ pc = "init"
  /\ calls' = [calls EXCEPT !["f"] = Append(@, arr \o <<"cbResolver">>)]
  /\ result' = Pending
  /\ pc' = "called"
  /\ UNCHANGED <<prog, task, arr, onRejected, i, out, order, law>>

(* The host: f, a node style function, calls the callback it was given,    *)
(* during the call of f or later, any number of times or never.            *)
taskify_callback ==
  /\ prog = "taskify" /\ pc = "called"
  /\ Len(calls["cbResolver"]) < MaxCallbacks
  /\ \E e \in JsErrors, r \in JsResults :
       /\ calls' = [calls EXCEPT !["cbResolver"] = Append(@, <<e, r>>)]
       /\ result' = Promise_resolve(result, taskify_cbResolver(e, r))
  /\ UNCHANGED <<prog, pc, task, arr, onRejected, i, out, order, law>>

-----------------------------------------------------------------------------
(* Monoid.ts.  A Semigroup is a description [kind, sub] read by            *)
(* Semigroup_concat; a Monoid is a record [S, empty]: the Semigroup whose  *)
(* members it spreads, and its own empty.                                  *)

Nums == {0, 1, 2}
Strs == {"", "a", "b"}

semigroupAll     == [kind |-> "All", sub |-> <<>>]
semigroupAny     == [kind |-> "Any", sub |-> <<>>]
semigroupSum     == [kind |-> "Sum", sub |-> <<>>]
semigroupProduct == [kind |-> "Product", sub |-> <<>>]
semigroupString  == [kind |-> "String", sub |-> <<>>]
getTupleSemigroup(SA, SB)  == [kind |-> "Tuple", sub |-> <<SA, SB>>]
getDualSemigroup(S)        == [kind |-> "Dual", sub |-> <<S>>]
getStructSemigroup(ss)     == [kind |-> "Struct", sub |-> ss]

RECURSIVE Semigroup_concat(_, _, _)
Semigroup_concat(S, x, y) ==
  CASE S.kind = "All"     -> x /\ y
    [] S.kind = "Any"     -> x \/ y
    [] S.kind = "Sum"     -> x + y
    [] S.kind = "Product" -> x * y
    [] S.kind = "String"  -> x \o y
    [] S.kind = "Tuple"   -> << Semigroup_concat(S.sub[1], x[1], y[1]),
                                Semigroup_concat(S.sub[2], x[2], y[2]) >>
    [] S.kind = "Dual"    -> Semigroup_concat(S.sub[1], y, x)
    [] S.kind = "Struct"  ->
         [k \in DOMAIN S.sub |-> Semigroup_concat(S.sub[k], x[k], y[k])]

(* fold of Semigroup: as.reduce(S.concat, a) *)
RECURSIVE foldSemigroup(_, _, _)
foldSemigroup(S, acc, xs) ==
  IF xs = <<>> THEN acc
  ELSE foldSemigroup(S, Semigroup_concat(S, acc, Head(xs)), Tail(xs))

(* the values of the type a Semigroup is over, within the bounds; a struct *)
(* has the keys x and y                                                    *)
RECURSIVE Carrier(_)
Carrier(S) ==
  CASE S.kind \in {"All", "Any"}     -> BOOLEAN
    [] S.kind \in {"Sum", "Product"} -> Nums
    [] S.kind = "String"             -> Strs
    [] S.kind = "Tuple"  -> Carrier(S.sub[1]) \X Carrier(S.sub[2])
    [] S.kind = "Dual"   -> Carrier(S.sub[1])
    [] S.kind = "Struct" -> [x : Carrier(S.sub.x), y : Carrier(S.sub.y)]

M_concat(M, x, y) == Semigroup_concat(M.S, x, y)

monoidAll == [S |-> semigroupAll, empty |-> TRUE]
monoidAny == [S |-> semigroupAny, empty |-> FALSE]
monoidSum == [S |-> semigroupSum, empty |-> 0]

(* Variant: the empty of monoidSum.                                        *)
monoidProduct_emptyZero == [S |-> semigroupProduct, empty |-> 0]

monoidProduct == [S |-> semigroupProduct, empty |-> 1]
monoidString == [S |-> semigroupString, empty |-> ""]

getTupleMonoid(MA, MB) ==
  [S |-> getTupleSemigroup(MA.S, MB.S), empty |-> <<MA.empty, MB.empty>>]

getDualMonoid(M) == [S |-> getDualSemigroup(M.S), empty |-> M.empty]

(* empty[key] = monoids[key].empty for every key of monoids *)
getStructMonoid(monoids) ==
  [S |-> getStructSemigroup([k \in DOMAIN monoids |-> monoids[k].S]),
   empty |-> [k \in DOMAIN monoids |-> monoids[k].empty]]

(* fold(M) = foldSemigroup(M)(M.empty) *)
fold(M, xs) == foldSemigroup(M.S, M.empty, xs)

(* the monoids taken as inputs *)
MonoidNames == {"monoidAll", "monoidAny", "monoidSum", "monoidProduct",
                "monoidString"}
MonoidShapes == {"instance", "tuple", "dual", "dualTuple", "struct"}

monoidNamed(n) ==
  CASE n = "monoidAll"     -> monoidAll
    [] n = "monoidAny"     -> monoidAny
    [] n = "monoidSum"     -> monoidSum
    [] n = "monoidProduct" -> monoidProduct
    [] n = "monoidString"  -> monoidString

monoidBuilt(shape, n1, n2) ==
  CASE shape = "instance"  -> monoidNamed(n1)
    [] shape = "tuple"     -> getTupleMonoid(monoidNamed(n1), monoidNamed(n2))
    [] shape = "dual"      -> getDualMonoid(monoidNamed(n1))
    [] shape = "dualTuple" ->
         getDualMonoid(getTupleMonoid(monoidNamed(n1), monoidNamed(n2)))
    [] shape = "struct"    ->
         getStructMonoid([x |-> monoidNamed(n1), y |-> monoidNamed(n2)])

ArraysOf(T) == UNION {[1..n -> T] : n \in 0..MaxFold}

(* M.concat(M.empty, x) and M.concat(x, M.empty) *)
monoid_identity ==
  /\ prog = "monoid" /\ pc = "init"
  /\ \E x \in Carrier(law.M.S) :
       law' = [law EXCEPT !.kind = "monoidIdentity",
                          !.xs = <<x>>,
                          !.lhs = M_concat(law.M, law.M.empty, x),
                          !.rhs = M_concat(law.M, x, law.M.empty)]
  /\ pc' = "done"
  /\ UNCHANGED <<prog, task, calls, result, arr, onRejected, i, out, order>>

(* fold(M)(as) *)
monoid_fold ==
  /\ prog = "monoid" /\ pc = "init"
  /\ \E xs \in ArraysOf(Carrier(law.M.S)) :
       law' = [law EXCEPT !.kind = "monoidFold",
                          !.xs = xs,
                          !.lhs = fold(law.M, xs)]
  /\ pc' = "done"
  /\ UNCHANGED <<prog, task, calls, result, arr, onRejected, i, out, order>>

-----------------------------------------------------------------------------
(* ReadonlyTuple.  ReadonlyTuple2<E, A> = readonly [A, E]: a pair <<a, e>>, *)
(* t[0] and t[1] of the source being t[1] and t[2] here.                   *)

RT_fst(t) == t[1]
RT_snd(t) == t[2]

RT_swap(t) == <<RT_snd(t), RT_fst(t)>>

(* extend = (f) => (wa) => [f(wa), snd(wa)], with fwa the value f(wa) *)
RT_extend(fwa, wa) == <<fwa, RT_snd(wa)>>

RT_extract(t) == RT_fst(t)

identity(x) == x

(* duplicate = extend(identity) *)
RT_duplicate(t) == RT_extend(identity(t), t)

(* M.concat(second)(first) of the curried Semigroup: first combined with   *)
(* second                                                                  *)
Monoid_concat_(M, second, first) == M_concat(M, first, second)

(* getPointed(M).of = (a) => [a, M.empty] *)
RT_of(M, x) == <<x, M.empty>>

(* Variant: the pair f returns, its second component not combined.         *)
RT_chain_dropSnd(M, k, ma) == k[RT_fst(ma)]

(* getMonad(M).chain = (f) => (ma) => { const [b, s] = f(fst(ma));         *)
(*                                      return [b, M.concat(s)(snd(ma))] } *)
RT_chain(M, k, ma) ==
  LET bs == k[RT_fst(ma)]
  IN  <<bs[1], Monoid_concat_(M, bs[2], RT_snd(ma))>>

(* the pairs and the functions into pairs taken as inputs *)
RT_Pairs(M) == Vals \X Carrier(M.S)
RT_Kleisli(M) == [Vals -> RT_Pairs(M)]

(* chain(f)(of(a)) and f(a) *)
RT_leftIdentity ==
  /\ prog = "tuple" /\ pc = "init"
  /\ \E x \in Vals, k \in RT_Kleisli(law.M) :
       law' = [law EXCEPT !.kind = "RT_leftIdentity",
                          !.t = RT_of(law.M, x), !.f = k,
                          !.lhs = RT_chain(law.M, k, RT_of(law.M, x)),
                          !.rhs = k[x]]
  /\ pc' = "done"
  /\ UNCHANGED <<prog, task, calls, result, arr, onRejected, i, out, order>>

(* chain(of)(t) and t *)
RT_rightIdentity ==
  /\ prog = "tuple" /\ pc = "init"
  /\ \E t \in RT_Pairs(law.M) :
       LET ofM == [x \in Vals |-> RT_of(law.M, x)]
       IN  law' = [law EXCEPT !.kind = "RT_rightIdentity",
                              !.t = t, !.f = ofM,
                              !.lhs = RT_chain(law.M, ofM, t),
                              !.rhs = t]
  /\ pc' = "done"
  /\ UNCHANGED <<prog, task, calls, result, arr, onRejected, i, out, order>>

(* chain(g)(chain(f)(t)) and chain(x => chain(g)(f(x)))(t) *)
RT_associativity ==
  /\ prog = "tuple" /\ pc = "init"
  /\ \E t \in RT_Pairs(law.M), k \in RT_Kleisli(law.M),
        h \in RT_Kleisli(law.M) :
       LET kh == [x \in Vals |-> RT_chain(law.M, h, k[x])]
       IN  law' = [law EXCEPT !.kind = "RT_associativity",
                              !.t = t, !.f = k, !.g = h,
                              !.mid = RT_chain(law.M, k, t),
                              !.lhs = RT_chain(law.M, h, RT_chain(law.M, k, t)),
                              !.rhs = RT_chain(law.M, kh, t)]
  /\ pc' = "done"
  /\ UNCHANGED <<prog, task, calls, result, arr, onRejected, i, out, order>>

(* swap(t) and swap(swap(t)) *)
RT_swapSwap ==
  /\ prog = "tuple" /\ pc = "init"
  /\ \E t \in RT_Pairs(law.M) :
       law' = [law EXCEPT !.kind = "RT_swapSwap",
                          !.t = t,
                          !.mid = RT_swap(t),
                          !.lhs = RT_swap(RT_swap(t)),
                          !.rhs = t]
  /\ pc' = "done"
  /\ UNCHANGED <<prog, task, calls, result, arr, onRejected, i, out, order>>

(* duplicate(t) and extract(duplicate(t)) *)
RT_extractDuplicate ==
  /\ prog = "tuple" /\ pc = "init"
  /\ \E t \in RT_Pairs(law.M) :
       law' = [law EXCEPT !.kind = "RT_extractDuplicate",
                          !.t = t,
                          !.mid = RT_duplicate(t),
                          !.lhs = RT_extract(RT_duplicate(t)),
                          !.rhs = t]
  /\ pc' = "done"
  /\ UNCHANGED <<prog, task, calls, result, arr, onRejected, i, out, order>>

-----------------------------------------------------------------------------

InitBracket ==
  /\ prog = "bracket"
  /\ task = [t \in {"acquire", "use", "release"} |-> Unstarted]
  /\ calls = [f \in {"use", "release"} |-> <<>>]
  /\ arr = <<>>
  /\ onRejected = [r \in Reasons |-> "e1"]

InitTryCatch ==
  /\ prog = "tryCatch"
  /\ task = [t \in {"f"} |-> Unstarted]
  /\ calls = [f \in {"f", "onRejected"} |-> <<>>]
  /\ arr = <<>>
  /\ onRejected \in [Reasons -> Errs]

InitAltValidation ==
  /\ prog = "altValidation"
  /\ task = [t \in {"ma", "mb"} |-> Unstarted]
  /\ calls = [f \in {"that"} |-> <<>>]
  /\ arr = <<>>
  /\ onRejected = [r \in Reasons |-> "e1"]

InitTaskify ==
  /\ prog = "taskify"
  /\ task = <<>>
  /\ calls = [f \in {"f", "cbResolver"} |-> <<>>]
  /\ arr \in {<<>>, <<"a1">>, <<"a1", "a2">>}
  /\ onRejected = [r \in Reasons |-> "e1"]

InitMonoid ==
  /\ prog = "monoid"
  /\ task = <<>>
  /\ calls = [f \in {"f"} |-> <<>>]
  /\ arr = <<>>
  /\ onRejected = [r \in Reasons |-> "e1"]
  /\ \E shape \in MonoidShapes, n1 \in MonoidNames, n2 \in MonoidNames :
       LET M == monoidBuilt(shape, n1, n2)
       IN  law = [kind |-> "monoid", M |-> M, xs |-> <<>>,
                  lhs |-> M.empty, rhs |-> M.empty]

(* getMonad(M) for an instance of Monoid.ts or its dual *)
InitTuple ==
  /\ prog = "tuple"
  /\ task = <<>>
  /\ calls = [f \in {"f"} |-> <<>>]
  /\ arr = <<>>
  /\ onRejected = [r \in Reasons |-> "e1"]
  /\ \E shape \in {"instance", "dual"}, n1 \in MonoidNames :
       LET M  == monoidBuilt(shape, n1, n1)
           t0 == <<"b1", M.empty>>
           k0 == [x \in Vals |-> t0]
       IN  law = [kind |-> "tuple", M |-> M, t |-> t0, f |-> k0, g |-> k0,
                  mid |-> t0, lhs |-> t0, rhs |-> t0]

InitRepeat ==
  /\ prog = "repeat"
  /\ task = <<>>
  /\ calls = [f \in {"f", "onRejected"} |-> <<>>]
  /\ arr = <<>>
  /\ onRejected = [r \in Reasons |-> IF r = "x1" THEN "e1" ELSE "e2"]

InitChain ==
  /\ prog = "chain"
  /\ task = [t \in {"ma", "fb"} |-> Unstarted]
  /\ calls = [f \in {"f"} |-> <<>>]
  /\ arr = <<>>
  /\ onRejected = [r \in Reasons |-> "e1"]

InitTraverse ==
  /\ prog \in {"traverseSeqArray", "traverseArray"}
  /\ \E n \in 0..MaxLen :
       /\ arr \in [1..n -> Elems]
       /\ task = [k \in 1..n |-> Unstarted]
  /\ calls = [f \in {"f"} |-> <<>>]
  /\ onRejected = [r \in Reasons |-> "e1"]

InitAp ==
  /\ prog = "ap"
  /\ task = [t \in {"fab", "fa"} |-> Unstarted]
  /\ calls = [f \in {"f"} |-> <<>>]
  /\ arr = <<>>
  /\ onRejected = [r \in Reasons |-> "e1"]

InitApSeq ==
  /\ prog = "apSeq"
  /\ task = [t \in {"fab", "fa"} |-> Unstarted]
  /\ calls = [f \in {"f"} |-> <<>>]
  /\ arr = <<>>
  /\ onRejected = [r \in Reasons |-> "e1"]

(* a run that only evaluates an expression starts no computation *)
InitPure ==
  /\ task = <<>>
  /\ calls = [f \in {"f"} |-> <<>>]
  /\ arr = <<>>
  /\ onRejected = [r \in Reasons |-> "e1"]

InitMonad ==
  /\ prog = "monad"
  /\ InitPure
  /\ \E m \in Eithers(Errs, Vals), a \in Vals, f \in KFuns, g \in KFuns :
       law = [kind |-> "monad", m |-> m, a |-> a, f |-> f, g |-> g,
              lhs |-> NoValue, rhs |-> NoValue]

InitBifunctor ==
  /\ prog \in {"map", "mapLeft", "bimap"}
  /\ task = [t \in {"ma"} |-> Unstarted]
  /\ calls = [f \in {"f", "g"} |-> <<>>]
  /\ arr = <<>>
  /\ onRejected = [r \in Reasons |-> "e1"]
  /\ \E f \in [Errs -> Errs], g \in Funs :
       law = [kind |-> "bifunctor", f |-> f, g |-> g]

InitFunctor ==
  /\ prog = "functor"
  /\ InitPure
  /\ \E m \in Eithers(Errs, Vals), f \in Funs, g \in Funs :
       law = [kind |-> "functor", m |-> m, f |-> f, g |-> g,
              lhs |-> NoValue, rhs |-> NoValue]

InitApValidation ==
  /\ prog = "apValidation"
  /\ task = [t \in {"fab", "fa"} |-> Unstarted]
  /\ calls = [f \in {"f"} |-> <<>>]
  /\ arr = <<>>
  /\ onRejected = [r \in Reasons |-> "e1"]
  /\ \E A \in {"ApplyPar", "ApplySeq"} : law = [kind |-> "validation", A |-> A]

InitOrElse ==
  /\ prog = "orElse"
  /\ task = [t \in {"ma", "mb"} |-> Unstarted]
  /\ calls = [f \in {"onLeft"} |-> <<>>]
  /\ arr = <<>>
  /\ onRejected = [r \in Reasons |-> "e1"]

InitAlt ==
  /\ prog = "alt"
  /\ task = [t \in {"ma", "mb"} |-> Unstarted]
  /\ calls = [f \in {"that"} |-> <<>>]
  /\ arr = <<>>
  /\ onRejected = [r \in Reasons |-> "e1"]

Init ==
  /\ pc = "init"
  /\ result = Unstarted
  /\ i = 0
  /\ out = <<>>
  /\ order = <<>>
  /\ \/ /\ law = NoLaw
        /\ \/ InitBracket
           \/ InitTryCatch
           \/ InitChain
           \/ InitTraverse
           \/ InitAp
           \/ InitApSeq
           \/ InitOrElse
           \/ InitAlt
           \/ InitRepeat
           \/ InitAltValidation
           \/ InitTaskify
     \/ InitMonad
     \/ InitBifunctor
     \/ InitFunctor
     \/ InitApValidation
     \/ InitMonoid
     \/ InitTuple


Next ==
  \/ TaskSettles
  \/ bracket_invoke
  \/ bracket_acquired
  \/ bracket_used
  \/ bracket_released
  \/ tryCatch_invoke
  \/ PromiseSettles
  \/ tryCatch_settled
  \/ chain_invoke
  \/ chain_continue
  \/ chain_finish
  \/ traverseSeqArray_invoke
  \/ traverseSeqArray_resume
  \/ traverseArray_invoke
  \/ traverseArray_settled
  \/ ap_invoke
  \/ ap_settled
  \/ apSeq_invoke
  \/ apSeq_continue
  \/ apSeq_finish
  \/ chain_leftIdentity
  \/ chain_rightIdentity
  \/ chain_associativity
  \/ bifunctor_invoke
  \/ bifunctor_settled
  \/ map_identity
  \/ map_composition
  \/ apValidation_invoke
  \/ apValidation_second
  \/ apValidation_settled
  \/ orElse_invoke
  \/ orElse_continue
  \/ orElse_finish
  \/ alt_invoke
  \/ alt_continue
  \/ alt_finish
  \/ repeat_invoke
  \/ repeat_settled
  \/ altValidation_invoke
  \/ altValidation_continue
  \/ altValidation_finish
  \/ taskify_invoke
  \/ taskify_callback
  \/ monoid_identity
  \/ monoid_fold
  \/ RT_leftIdentity
  \/ RT_rightIdentity
  \/ RT_associativity
  \/ RT_swapSwap
  \/ RT_extractDuplicate

Spec == Init /\ [][Next]_vars

-----------------------------------------------------------------------------
(* Properties *)

IsRight(p) == p.state = "fulfilled" /\ ~E_isLeft(p.value)
IsLeft(p)  == p.state = "fulfilled" /\ E_isLeft(p.value)

(* C1: in a run of bracket whose acquire settles with Right(r), release is  *)
(* called at most once, never before use(r) has settled, with r and the    *)
(* outcome of use(r), Left or Right; use is called once, with r; and once  *)
(* the run has settled release has been called exactly once; the run is    *)
(* never stuck before it has settled.                                      *)
C1_ReleaseExactlyOnce ==
  prog = "bracket" =>
    /\ Len(calls["use"]) <= 1
    /\ Len(calls["release"]) <= 1
    /\ Len(calls["release"]) = 1 =>
         /\ IsRight(task["acquire"])
         /\ task["use"].state = "fulfilled"
         /\ calls["use"] = << <<task["acquire"].value.val>> >>
         /\ calls["release"] = << <<task["acquire"].value.val, task["use"].value>> >>
    /\ (Settled(result) \/ pc = "done") /\ IsRight(task["acquire"]) =>
         Len(calls["release"]) = 1
    /\ task["use"].state = "fulfilled" /\ pc # "use" => Len(calls["release"]) = 1
    /\ pc # "done" => ENABLED Next

C1_Witness ==
  /\ prog = "bracket" /\ pc = "done"
  /\ IsRight(task["acquire"])
  /\ IsLeft(task["use"])
  /\ Len(calls["release"]) = 1
  /\ task["release"].state = "fulfilled"

(* C2: when acquire settles with Left(e), use and release are never called *)
(* nor started, and the run settles with Left(e).                          *)
C2_AcquireFailure ==
  prog = "bracket" /\ IsLeft(task["acquire"]) =>
    /\ calls["use"] = <<>> /\ calls["release"] = <<>>
    /\ ~Started(task["use"]) /\ ~Started(task["release"])
    /\ pc \in {"acquire", "done"}
    /\ pc = "done" => result = Fulfilled(task["acquire"].value)
    /\ Settled(result) => pc = "done"

C2_Witness ==
  /\ prog = "bracket" /\ pc = "done"
  /\ IsLeft(task["acquire"])
  /\ result = Fulfilled(E_left("e2"))

(* C3: after a successful acquire, the run settles with release's Left     *)
(* when release fails, whatever use's outcome, and with use's own outcome  *)
(* when release succeeds.                                                  *)
C3_ReleaseFailureWins ==
  prog = "bracket" /\ pc = "done" /\ IsRight(task["acquire"]) =>
    /\ task["use"].state = "fulfilled" /\ task["release"].state = "fulfilled"
    /\ result = Fulfilled(IF E_isLeft(task["release"].value)
                          THEN task["release"].value
                          ELSE task["use"].value)

C3_Witness ==
  /\ prog = "bracket" /\ pc = "done"
  /\ IsRight(task["use"])
  /\ IsLeft(task["release"])
  /\ result = Fulfilled(task["release"].value)

C5_ChainShortCircuit ==
  prog = "chain" /\ IsLeft(task["ma"]) =>
    /\ calls["f"] = <<>>
    /\ ~Started(task["fb"])
    /\ pc \in {"ma", "done"}
    /\ pc = "done" => result = Fulfilled(task["ma"].value)
    /\ Settled(result) => pc = "done"

C5_Witness ==
  /\ prog = "chain" /\ pc = "done"
  /\ task["ma"] = Fulfilled(E_left("e1"))
  /\ result = Fulfilled(E_left("e1"))

(* C6: traverseSeqArray calls f on the elements in index order, one at a   *)
(* time: element k is started only once element k-1 has settled with a     *)
(* Right, at most one computation is pending, and once an element has      *)
(* settled with a Left no later element is called or started and the run   *)
(* settles with that Left.                                                 *)
C6_SeqOneAtATime ==
  prog = "traverseSeqArray" =>
    LET n == Len(calls["f"])
    IN  /\ n <= Len(arr)
        /\ calls["f"] = [k \in 1..n |-> <<arr[k]>>]
        /\ \A k \in 1..Len(arr) : Started(task[k]) <=> k <= n
        /\ \A k \in 2..Len(arr) : Started(task[k]) => IsRight(task[k - 1])
        /\ Cardinality({k \in 1..Len(arr) : task[k].state = "pending"}) <= 1
        /\ \A k \in 1..Len(arr) :
             IsLeft(task[k]) =>
               /\ \A j \in (k + 1)..Len(arr) : ~Started(task[j])
               /\ n = k
               /\ pc = "done" => result = Fulfilled(task[k].value)
        /\ Settled(result) => pc = "done"

C6_Witness ==
  /\ prog = "traverseSeqArray" /\ pc = "done"
  /\ Len(arr) = 3
  /\ IsRight(task[1]) /\ IsLeft(task[2]) /\ ~Started(task[3])
  /\ Len(calls["f"]) = 2
  /\ result = Fulfilled(task[2].value)

(* C7: traverseArray has called f on every element, in index order, and    *)
(* started every computation by the time its invocation returns, hence     *)
(* before any of them settles and also when an earlier element fails; the  *)
(* run settles only after every computation has settled.                   *)
C7_ParStartsAll ==
  prog = "traverseArray" =>
    /\ pc # "init" =>
         /\ \A k \in 1..Len(arr) : Started(task[k])
         /\ calls["f"] = [k \in 1..Len(arr) |-> <<arr[k]>>]
    /\ pc = "init" => order = <<>>
    /\ Settled(result) => \A k \in 1..Len(arr) : task[k].state = "fulfilled"
    /\ Settled(result) <=> pc = "done"

C7_Witness ==
  /\ prog = "traverseArray" /\ pc = "all"
  /\ Len(arr) = 3
  /\ IsLeft(task[1])
  /\ task[2].state = "pending" /\ task[3].state = "pending"
  /\ result = Pending

(* C8: whatever the order in which the computations settle, traverseArray  *)
(* settles with the Right of all the values in input order when no element *)
(* fails, and otherwise with the Left of the failing element of least      *)
(* index.                                                                  *)
C8_ParResult ==
  prog = "traverseArray" /\ pc = "done" =>
    LET fails == {k \in 1..Len(arr) : E_isLeft(task[k].value)}
    IN  IF fails = {}
        THEN result = Fulfilled(E_right([k \in 1..Len(arr) |-> task[k].value.val]))
        ELSE \E k \in fails :
               /\ \A j \in fails : k <= j
               /\ result = Fulfilled(task[k].value)

C8_Witness ==
  /\ prog = "traverseArray" /\ pc = "done"
  /\ Len(arr) = 3
  /\ order = <<3, 2, 1>>
  /\ task[1].value = E_right("b1")
  /\ task[2].value = E_left("e1")
  /\ task[3].value = E_left("e2")
  /\ result = Fulfilled(E_left("e1"))

(* C9: ap has started both computations by the time its invocation         *)
(* returns, hence before either settles and also when the function side    *)
(* fails; when they settle with Right(g) and Right(a) the run settles with *)
(* Right(g(a)).                                                            *)
C9_ApStartsBoth ==
  prog = "ap" =>
    /\ pc # "init" => Started(task["fab"]) /\ Started(task["fa"])
    /\ pc = "init" => order = <<>>
    /\ Settled(result) => task["fab"].state = "fulfilled" /\ task["fa"].state = "fulfilled"
    /\ pc = "done" /\ IsRight(task["fab"]) /\ IsRight(task["fa"]) =>
         result = Fulfilled(E_right(task["fab"].value.val[task["fa"].value.val]))

C9_Witness ==
  /\ prog = "ap" /\ pc = "both"
  /\ IsLeft(task["fab"])
  /\ task["fa"].state = "pending"

(* C10: when exactly one side of ap fails the run settles with that Left;  *)
(* when both fail it settles with the Left of the function side, whichever *)
(* settled first; the two failures are never combined.                     *)
C10_ApFailurePolicy ==
  prog = "ap" /\ pc = "done" =>
    /\ IsLeft(task["fab"]) => result = Fulfilled(task["fab"].value)
    /\ IsRight(task["fab"]) /\ IsLeft(task["fa"]) => result = Fulfilled(task["fa"].value)

C10_Witness ==
  /\ prog = "ap" /\ pc = "done"
  /\ order = <<"fa", "fab">>
  /\ task["fab"].value = E_left("e1")
  /\ task["fa"].value = E_left("e2")
  /\ result = Fulfilled(E_left("e1"))

(* C11: the sequential ap starts the value computation only after the      *)
(* function computation has settled with a Right; when the function        *)
(* computation settles with Left(e) the value computation is never started *)
(* and the run settles with Left(e); the result is the one the parallel ap *)
(* computes from the same two outcomes.                                    *)
C11_ApSeqOrder ==
  prog = "apSeq" =>
    /\ Started(task["fa"]) => IsRight(task["fab"])
    /\ IsLeft(task["fab"]) =>
         /\ pc \in {"fab", "done"}
         /\ pc = "done" => result = Fulfilled(task["fab"].value)
    /\ pc = "done" /\ IsRight(task["fab"]) =>
         /\ task["fa"].state = "fulfilled"
         /\ result = Fulfilled(ap_result(task["fab"].value, task["fa"].value))
    /\ Settled(result) <=> pc = "done"
    /\ pc # "done" => ENABLED Next

C11_Witness ==
  /\ prog = "apSeq" /\ pc = "done"
  /\ IsLeft(task["fab"])
  /\ ~Started(task["fa"])
  /\ result = Fulfilled(task["fab"].value)

(* C12: chain and right satisfy the monad laws on results: for all a, f, g *)
(* and every m settling with a Left or a Right, chain(f)(right(a)) settles *)
(* as f(a), chain(right)(m) as m, and chain(g)(chain(f)(m)) as             *)
(* chain(x => chain(g)(f(x)))(m).                                          *)
C12_MonadLaws ==
  prog = "monad" /\ pc = "done" =>
    /\ law.kind \in {"leftIdentity", "rightIdentity", "associativity"}
    /\ law.lhs = law.rhs

C12_Witness ==
  /\ prog = "monad" /\ pc = "done"
  /\ law.kind = "associativity"
  /\ law.m = E_right("b1")
  /\ law.f["b1"] = E_right("b2")
  /\ law.g["b2"] = E_left("e2")
  /\ law.lhs = E_left("e2")
  /\ law.rhs = E_left("e2")

(* C13: map satisfies the functor laws on results, map(identity)(m) as m   *)
(* and map(f . g)(m) as map(f)(map(g)(m)); when ma settles with Left(e)    *)
(* map settles with Left(e) and calls no function; mapLeft and bimap call  *)
(* the failure function only on a Left and the success function only on a  *)
(* Right, and leave the other side untouched.                              *)
C13_FunctorLaws ==
  /\ prog = "functor" /\ pc = "done" =>
       /\ law.kind \in {"identity", "composition"}
       /\ law.lhs = law.rhs
  /\ prog \in {"map", "mapLeft", "bimap"} =>
       /\ pc # "done" => calls["f"] = <<>> /\ calls["g"] = <<>>
       /\ prog = "map" => calls["f"] = <<>>
       /\ prog = "mapLeft" => calls["g"] = <<>>
       /\ pc = "done" /\ IsLeft(task["ma"]) =>
            /\ calls["g"] = <<>>
            /\ IF prog = "map"
               THEN result = Fulfilled(task["ma"].value) /\ calls["f"] = <<>>
               ELSE /\ calls["f"] = << <<task["ma"].value.val>> >>
                    /\ result = Fulfilled(E_left(law.f[task["ma"].value.val]))
       /\ pc = "done" /\ IsRight(task["ma"]) =>
            /\ calls["f"] = <<>>
            /\ IF prog = "mapLeft"
               THEN result = Fulfilled(task["ma"].value) /\ calls["g"] = <<>>
               ELSE /\ calls["g"] = << <<task["ma"].value.val>> >>
                    /\ result = Fulfilled(E_right(law.g[task["ma"].value.val]))

C13_Witness ==
  /\ prog = "map" /\ pc = "done"
  /\ task["ma"].value = E_left("e1")
  /\ law.g = [x \in Vals |-> "b2"]
  /\ result = Fulfilled(E_left("e1"))
  /\ calls["g"] = <<>>

(* C14: with the applicative of getApplicativeTaskValidation(A, S), when   *)
(* the function side fails with e1 and the value side with e2 the run      *)
(* settles with the single Left(S.concat(e1, e2)), with string             *)
(* concatenation the two error strings joined in that order; when only one *)
(* side fails it settles with that Left, and when both succeed with g and  *)
(* a it settles with Right(g(a)).                                          *)
C14_ValidationAccumulates ==
  prog = "apValidation" /\ pc = "done" =>
    LET fab == task["fab"].value
        fa  == task["fa"].value
    IN  /\ E_isLeft(fab) /\ E_isLeft(fa) =>
             /\ result = Fulfilled(E_left(fab.val \o fa.val))
             /\ Len(result.value.val) = Len(fab.val) + Len(fa.val)
        /\ E_isLeft(fab) /\ ~E_isLeft(fa) => result = Fulfilled(fab)
        /\ ~E_isLeft(fab) /\ E_isLeft(fa) => result = Fulfilled(fa)
        /\ ~E_isLeft(fab) /\ ~E_isLeft(fa) =>
             result = Fulfilled(E_right(fab.val[fa.val]))

C14_Witness ==
  /\ prog = "apValidation" /\ pc = "done"
  /\ task["fab"].value = E_left("e1")
  /\ task["fa"].value = E_left("e2")
  /\ result = Fulfilled(E_left("e1e2"))

(* C15: in orElse(onLeft)(ma) and alt(that)(ma), when ma settles with a    *)
(* Right the handler (onLeft, that) is never called, no replacement is     *)
(* started and the run settles with that Right; when ma settles with       *)
(* Left(e) the handler is called once (onLeft with e, that with nothing)   *)
(* and the run settles with exactly the Either of the replacement, Right   *)
(* or Left; the run settles at no other point.                             *)
C15_OrElseAlt ==
  prog \in {"orElse", "alt"} =>
    LET h == IF prog = "orElse" THEN "onLeft" ELSE "that"
    IN  /\ IsRight(task["ma"]) =>
             /\ calls[h] = <<>>
             /\ ~Started(task["mb"])
             /\ pc \in {"ma", "done"}
             /\ pc = "done" => result = Fulfilled(task["ma"].value)
        /\ IsLeft(task["ma"]) /\ pc = "done" =>
             /\ calls[h] = IF prog = "orElse"
                           THEN << <<task["ma"].value.val>> >>
                           ELSE << <<>> >>
             /\ Settled(task["mb"])
             /\ result = Fulfilled(task["mb"].value)
        /\ Settled(result) => pc = "done"

C15_Witness ==
  /\ prog = "alt" /\ pc = "done"
  /\ task["ma"] = Fulfilled(E_left("e1"))
  /\ task["mb"] = Fulfilled(E_left("e2"))
  /\ calls["that"] = << <<>> >>
  /\ result = Fulfilled(E_left("e2"))

(* C16: a TaskEither built by tryCatch runs nothing when it is built, and  *)
(* every invocation runs the wrapped operation anew: after n invocations f *)
(* has been called exactly n times (none before the first), each           *)
(* invocation has a promise of its own, and the outcome of invocation k is *)
(* derived from the promise f returned to invocation k, never from that of *)
(* another invocation.                                                     *)
C16_LazyUnmemoized ==
  /\ prog = "repeat" =>
       /\ Len(calls["f"]) = i
       /\ Len(task) = i /\ Len(out) = i
       /\ \A k \in 1..i :
            /\ out[k].state = "thrown" <=> task[k].state = "thrown"
            /\ Settled(out[k]) =>
                 /\ Settled(task[k])
                 /\ out[k] = tryCatch_then(task[k], onRejected)
  \* built by tryCatch, chain, bracket or taskify and not invoked: nothing ran
  /\ prog \in {"tryCatch", "chain", "bracket", "taskify"} /\ pc = "init" =>
       /\ \A t \in DOMAIN task : ~Started(task[t])
       /\ \A c \in DOMAIN calls : calls[c] = <<>>
       /\ result = Unstarted

C16_Witness ==
  /\ prog = "repeat" /\ i = 2
  /\ Len(calls["f"]) = 2
  /\ out[1] = Fulfilled(E_right("b1"))
  /\ out[2] = Fulfilled(E_left("e1"))

(* C17: when f raises x synchronously, the invocation of                   *)
(* tryCatch(f, onRejected) raises x to its caller: no promise is returned, *)
(* onRejected is never called and no Left is produced.                     *)
C17_SyncThrowNotCaught ==
  prog = "tryCatch" /\ task["f"].state = "thrown" =>
    /\ result.state = "thrown"
    /\ result = Thrown(task["f"].value)
    /\ calls["onRejected"] = <<>>
    /\ pc = "thrown"

C17_Witness ==
  /\ prog = "tryCatch" /\ pc = "thrown"
  /\ calls["f"] = << <<>> >>
  /\ task["f"] = Thrown("x1")
  /\ result = Thrown("x1")

(* C18: with the alt of getAltTaskValidation(S), when fa settles with a    *)
(* Right the run settles with it and that is not called; when fa fails and *)
(* that() settles with a Right the run settles with that Right; when fa    *)
(* fails with e1 and that() with e2 the run settles with                   *)
(* Left(S.concat(e1, e2)), the two error strings joined first one first,   *)
(* and with neither e1 nor e2 alone.                                       *)
C18_AltValidation ==
  prog = "altValidation" /\ pc = "done" =>
    LET fa == task["ma"].value
        fb == task["mb"].value
    IN  /\ ~E_isLeft(fa) =>
             /\ result = Fulfilled(fa)
             /\ calls["that"] = <<>> /\ ~Started(task["mb"])
        /\ E_isLeft(fa) =>
             /\ calls["that"] = << <<>> >>
             /\ result.value.tag = fb.tag
             /\ E_isLeft(fb) =>
                  /\ Len(result.value.val) = Len(fa.val) + Len(fb.val)
                  /\ result = Fulfilled(E_left(fa.val \o fb.val))
             /\ ~E_isLeft(fb) => result = Fulfilled(fb)

C18_Witness ==
  /\ prog = "altValidation" /\ pc = "done"
  /\ task["ma"] = Fulfilled(E_left("e1"))
  /\ task["mb"] = Fulfilled(E_left("e2"))
  /\ result = Fulfilled(E_left("e1e2"))

RECURSIVE ConcatFromLeft(_, _)
ConcatFromLeft(M, xs) ==
  IF Len(xs) = 0 THEN M.empty
  ELSE M_concat(M, ConcatFromLeft(M, SubSeq(xs, 1, Len(xs) - 1)), xs[Len(xs)])

(* C20: for monoidAll, monoidAny, monoidSum, monoidProduct, monoidString   *)
(* and the tuple, dual and struct monoids built from them, M.concat of     *)
(* M.empty with x, on either side, is x; fold(M)(as) is the elements of as *)
(* combined by M.concat from the left starting with M.empty, and M.empty   *)
(* for the empty array.                                                    *)
C20_MonoidIdentityFold ==
  prog = "monoid" =>
    /\ law.kind = "monoidIdentity" =>
         /\ law.lhs = law.xs[1]
         /\ law.rhs = law.xs[1]
    /\ law.kind = "monoidFold" =>
         /\ law.lhs = ConcatFromLeft(law.M, law.xs)
         /\ Len(law.xs) = 0 => law.lhs = law.M.empty
         /\ Len(law.xs) = 1 => law.lhs = law.xs[1]

C20_Witness ==
  /\ prog = "monoid" /\ law.kind = "monoidFold"
  /\ law.M.S.kind = "Tuple"
  /\ law.M.S.sub[1].kind = "String" /\ law.M.S.sub[2].kind = "Product"
  /\ law.xs = << <<"a", 2>>, <<"b", 2>>, <<"", 1>> >>
  /\ law.lhs = <<"ab", 4>>

(* C21: for ReadonlyTuple and getMonad(M), M a monoid of Monoid.ts or its  *)
(* dual: chain(f)(of(a)) = f(a); chain(of)(t) = t; chain(g)(chain(f)(t)) = *)
(* chain(x => chain(g)(f(x)))(t); chain(f)(t) has the first component of   *)
(* f(fst(t)) and as second component the second component of f(fst(t))     *)
(* and snd(t) combined by M.concat; swap(t) is t with its components       *)
(* exchanged and swap(swap(t)) = t; duplicate(t) is the pair of t and      *)
(* snd(t) and extract(duplicate(t)) = t.                                   *)
C21_TupleMonadLaws ==
  prog = "tuple" /\ pc = "done" =>
    /\ law.kind = "RT_leftIdentity" =>
         \E x \in Vals : law.t = <<x, law.M.empty>> /\ law.lhs = law.f[x]
    /\ law.kind = "RT_rightIdentity" => law.lhs = law.t
    /\ law.kind = "RT_associativity" =>
         LET fa == law.f[law.t[1]]
         IN  /\ law.lhs = law.rhs
             /\ law.mid[1] = fa[1]
             /\ \/ law.mid[2] = M_concat(law.M, law.t[2], fa[2])
                \/ law.mid[2] = M_concat(law.M, fa[2], law.t[2])
             /\ law.lhs[1] = law.g[fa[1]][1]
    /\ law.kind = "RT_swapSwap" =>
         /\ law.mid = <<law.t[2], law.t[1]>>
         /\ law.lhs = law.t
    /\ law.kind = "RT_extractDuplicate" =>
         /\ law.mid = <<law.t, law.t[2]>>
         /\ law.lhs = law.t

C21_Witness ==
  /\ prog = "tuple" /\ law.kind = "RT_associativity"
  /\ law.M.S.kind = "String"
  /\ law.t = <<"b1", "a">>
  /\ law.f["b1"] = <<"b2", "b">>
  /\ law.g["b2"] = <<"b1", "a">>
  /\ law.mid[1] = "b2" /\ Len(law.mid[2]) = 2
  /\ law.lhs = <<"b1", "aba">>
  /\ law.rhs = <<"b1", "aba">>

====
